---- MODULE Spec2Model ----
(***************************************************************************)
(* A model of py-natpmp (natpmp/NATPMP.py): the NAT-PMP client library.    *)
(* One call of a high-level operation (get_public_address, map_port) or    *)
(* of send_request_with_retry is a small sequential process; the gateway,  *)
(* the network and the operating system are the environment and choose    *)
(* what each blocking call (netstat, socket, connect, sendall, select,     *)
(* recvfrom) produces.                                                      *)
(***************************************************************************)
EXTENDS Integers, Sequences, FiniteSets, TLC

\* ------------------------------------------------------------------ bounds

\* Largest retry budget a caller passes besides the default one.
MaxRetry == 2

\* ------------------------------------------------------- program constants

NATPMP_PORT == 5351
NATPMP_RESERVED_VAL == 0
NATPMP_PROTOCOL_UDP == 1
NATPMP_PROTOCOL_TCP == 2
NATPMP_GATEWAY_NO_VALID_GATEWAY == -10
NATPMP_GATEWAY_NO_SUPPORT == -11
NATPMP_GATEWAY_CANNOT_FIND == -12
NATPMP_RESULT_SUCCESS == 0
NATPMP_RESULT_UNSUPPORTED_VERSION == 1
NATPMP_RESULT_NOT_AUTHORIZED == 2
NATPMP_RESULT_NETWORK_FAILURE == 3
NATPMP_RESULT_OUT_OF_RESOURCES == 4
NATPMP_RESULT_UNSUPPORTED_OPERATION == 5

\* NATPMPRequest.retry_increment, 0.250 seconds, in milliseconds.
retry_increment == 250
\* The default of the retry parameter of every operation.
DefaultRetry == 9
\* The default of the lifetime parameter.
DefaultLifetime == 3600
\* The default responseSize of read_response: the size of the receive buffer.
responseSize == 16
\* struct.calcsize("!BBHII") and struct.calcsize("!BBHIHHI").
PublicAddressResponseSize == 12
PortMapResponseSize == 16

\* Python's None, the empty string / empty byte string "", and a local variable
\* of a function that has not been entered.
None == "None"
Unbound == "unbound"
EmptyData == << >>

\* NATPMP_ERROR_DICT and error_str: dict.get gives None for a missing key and
\* every stored description is non-empty, so only a missing key is "not result".
NATPMP_ERROR_DICT ==
  [code \in {NATPMP_RESULT_SUCCESS, NATPMP_RESULT_UNSUPPORTED_VERSION,
             NATPMP_RESULT_NOT_AUTHORIZED, NATPMP_RESULT_NETWORK_FAILURE,
             NATPMP_RESULT_OUT_OF_RESOURCES, NATPMP_RESULT_UNSUPPORTED_OPERATION,
             NATPMP_GATEWAY_NO_SUPPORT, NATPMP_GATEWAY_NO_VALID_GATEWAY,
             NATPMP_GATEWAY_CANNOT_FIND} |->
     CASE code = NATPMP_RESULT_SUCCESS -> "No error."
       [] code = NATPMP_RESULT_UNSUPPORTED_VERSION ->
            "The protocol version specified is unsupported."
       [] code = NATPMP_RESULT_NOT_AUTHORIZED ->
            "The operation was refused.  NAT-PMP may be turned off on gateway."
       [] code = NATPMP_RESULT_NETWORK_FAILURE ->
            "There was a network failure.  The gateway may not have an IP address."
       [] code = NATPMP_RESULT_OUT_OF_RESOURCES ->
            "The NAT-PMP gateway is out of resources and cannot create more mappings."
       [] code = NATPMP_RESULT_UNSUPPORTED_OPERATION ->
            "The NAT-PMP gateway does not support this operation"
       [] code = NATPMP_GATEWAY_NO_SUPPORT -> "The gateway does not support NAT-PMP"
       [] code = NATPMP_GATEWAY_NO_VALID_GATEWAY ->
            "No valid gateway address was specified."
       [] code = NATPMP_GATEWAY_CANNOT_FIND ->
            "Cannot automatically determine gateway address.  Must specify manually."]

\* Faulty variant: the code itself is tested for truth, so 0 counts as missing.
error_str_ZeroMissing(result_code) ==
  IF result_code \in DOMAIN NATPMP_ERROR_DICT /\ result_code # 0
    THEN NATPMP_ERROR_DICT[result_code]
    ELSE "Unknown fatal error."

error_str(result_code) ==
  IF result_code \in DOMAIN NATPMP_ERROR_DICT
    THEN NATPMP_ERROR_DICT[result_code]
    ELSE "Unknown fatal error."

\* ------------------------------------------------------------- wire codec

\* Faulty variant: the 16-bit fields are packed in little-endian order ('<H').
PackH_LittleEndian(x) == << x % 256, x \div 256 >>

\* struct.pack('!B'), ('!H') and ('!I') of an in-range value: big-endian bytes.
PackB(x) == << x >>
PackH(x) == << x \div 256, x % 256 >>
PackI(x) == << x \div 16777216, (x \div 65536) % 256, (x \div 256) % 256, x % 256 >>

\* struct.pack raises struct.error for a value outside the format's range
FitsB(x) == x \in 0..255
FitsH(x) == x \in 0..65535
\* (the bound 2^32 - 1 of '!I' is written with 16-bit halves)
FitsI(x) == 0 <= x /\ x \div 65536 <= 65535

\* The big-endian unsigned integer struct.unpack reads from a run of bytes.
RECURSIVE UnpackInt(_)
UnpackInt(bytes) ==
  IF bytes = << >> THEN 0
  ELSE 256 * UnpackInt(SubSeq(bytes, 1, Len(bytes) - 1)) + bytes[Len(bytes)]

\* bytes[i:j] of Python: the bytes at the 0-based positions i .. j-1.
Slice(bytes, i, j) ==
  SubSeq(bytes, i + 1, IF j < Len(bytes) THEN j ELSE Len(bytes))

\* socket.inet_ntoa: four bytes to the dotted-quad string.
inet_ntoa(b) ==
  ToString(b[1]) \o "." \o ToString(b[2]) \o "." \o ToString(b[3]) \o "."
    \o ToString(b[4])

\* The request objects, as the records of their fields.
PublicAddressRequest ==
  [cls |-> "PublicAddressRequest", version |-> 0, opcode |-> 0]

\* Faulty variant: the constructor stores the two ports in each other's field.
PortMapRequest_PortsSwapped(protocol, private_port, public_port, lifetime) ==
  [cls |-> "PortMapRequest", version |-> 0, opcode |-> protocol,
   private_port |-> public_port, public_port |-> private_port,
   lifetime |-> lifetime]

\* PortMapRequest.__init__(protocol, private_port, public_port, lifetime).
PortMapRequest(protocol, private_port, public_port, lifetime) ==
  [cls |-> "PortMapRequest", version |-> 0, opcode |-> protocol,
   private_port |-> private_port, public_port |-> public_port,
   lifetime |-> lifetime]

\* NATPMPRequest.toBytes: struct.pack('!BB', version, opcode).
NATPMPRequest_toBytes(request) == PackB(request.version) \o PackB(request.opcode)

\* PortMapRequest.toBytes appends struct.pack('!HHHI', reserved, private, public,
\* lifetime) to the two header bytes.
PortMapRequest_toBytes(request) ==
  NATPMPRequest_toBytes(request) \o PackH(NATPMP_RESERVED_VAL)
    \o PackH(request.private_port) \o PackH(request.public_port)
    \o PackI(request.lifetime)

\* request.toBytes(), dispatched on the class of the request.
toBytes(request) ==
  IF request.cls = "PortMapRequest"
    THEN PortMapRequest_toBytes(request)
    ELSE NATPMPRequest_toBytes(request)

\* request.toBytes() raises struct.error when a field does not fit its format.
toBytesRaises(request) ==
  \/ ~ FitsB(request.version)
  \/ ~ FitsB(request.opcode)
  \/ /\ request.cls = "PortMapRequest"
     /\ \/ ~ FitsH(request.private_port)
        \/ ~ FitsH(request.public_port)
        \/ ~ FitsI(request.lifetime)

\* PublicAddressResponse.__init__: struct.unpack("!BBHII", bytes) and inet_ntoa.
PublicAddressResponse(bytes) ==
  [cls |-> "PublicAddressResponse",
   version |-> bytes[1], opcode |-> bytes[2],
   result |-> UnpackInt(Slice(bytes, 2, 4)),
   sec_since_epoch |-> UnpackInt(Slice(bytes, 4, 8)),
   ip_int |-> UnpackInt(Slice(bytes, 8, 12)),
   ip |-> inet_ntoa(Slice(bytes, 8, 12))]

\* PortMapResponse.__init__: struct.unpack('!BBHIHHI', bytes).
PortMapResponse(bytes) ==
  [cls |-> "PortMapResponse",
   version |-> bytes[1], opcode |-> bytes[2],
   result |-> UnpackInt(Slice(bytes, 2, 4)),
   sec_since_epoch |-> UnpackInt(Slice(bytes, 4, 8)),
   private_port |-> UnpackInt(Slice(bytes, 8, 10)),
   public_port |-> UnpackInt(Slice(bytes, 10, 12)),
   lifetime |-> UnpackInt(Slice(bytes, 12, 16))]

\* The number of bytes struct.unpack demands for a response class.
StructSize(response_data_class) ==
  IF response_data_class = "PublicAddressResponse"
    THEN PublicAddressResponseSize
    ELSE PortMapResponseSize

\* struct.unpack raises struct.error unless the buffer has exactly that size.
UnpackRaises(response_data_class, bytes) ==
  Len(bytes) # StructSize(response_data_class)

\* response_data_class(data).
Decode(response_data_class, bytes) ==
  IF response_data_class = "PublicAddressResponse"
    THEN PublicAddressResponse(bytes)
    ELSE PortMapResponse(bytes)

\* ------------------------------------------------------------ environment

\* The calls of the library that may be in progress.
Calls == {1, 2}

\* The address of the gateway, and of another host on the network.
GatewayHost == "10.0.1.1"
OtherHost == "10.0.1.99"

\* What get_gateway_addr gives: an address scraped from netstat's output (the
\* nt patterns can capture an empty string), or NATPMPNetworkError.
CannotFind == "cannot find"
GatewayAddrOutcomes == {CannotFind, "", GatewayHost}

\* The values callers pass.
GatewayArgs == {None, "", GatewayHost}
RetryArgs == (-1 .. MaxRetry) \cup {DefaultRetry}
ProtocolArgs == 0 .. 3
PortArgs == {62001, 62002, 65536}
LifetimeArgs == {DefaultLifetime, -1}

\* The values the codec and error_str are called with on their own.
CodeArgs == (-13 .. 6) \cup {258}
CodecPorts == {0, 255, 256, 62001, 65535, 65536}
CodecLifetimes == {-1, 0, DefaultLifetime, 65536, 2147483647}

\* Datagrams the network can deliver to the socket: a response header
\* (version 0, opcode, result, seconds since epoch) and what follows it.
ResultCodes == {0, 2, 258}
ResponseHeader(opcode, result) ==
  PackB(0) \o PackB(opcode) \o PackH(result) \o PackI(1000)
AddressReply(result) == ResponseHeader(128, result) \o << 100, 64, 113, 5 >>
MappingReply(protocol, result) ==
  ResponseHeader(128 + protocol, result) \o PackH(62001) \o PackH(62002)
    \o PackI(3600)
WireDatagrams ==
  {<< >>, ResponseHeader(128, 1), MappingReply(1, 0) \o << 0, 0, 14, 16 >>}
    \cup {AddressReply(r) : r \in ResultCodes}
    \cup {MappingReply(p, r) : p \in {1, 2}, r \in ResultCodes}

\* The (host, port) pairs recvfrom can report; ("", "") of read_response, the
\* source of no datagram, is written NoSource.
NoSource == << "", 0 >>
Sources ==
  {<< GatewayHost, NATPMP_PORT >>, << GatewayHost, 5350 >>,
   << OtherHost, NATPMP_PORT >>}

\* socket.recvfrom(bufsize) of a datagram socket: the first bufsize bytes of the
\* datagram; the rest of a longer datagram is dropped (POSIX). Where the
\* platform reports the truncation as an error instead (Windows), the call is
\* the failing recvfrom of ReadResponse.
recvfrom(datagram, bufsize) ==
  SubSeq(datagram, 1, IF Len(datagram) < bufsize THEN Len(datagram) ELSE bufsize)

\* ------------------------------------------------------------------ state

VARIABLES
  pc,                  \* where each call is
  args,                \* the arguments of the high-level call
  gateway_ip,          \* send_request_with_retry's gateway_ip
  request,             \* send_request_with_retry's request
  response_data_class, \* send_request_with_retry's response_data_class
  retry,               \* send_request_with_retry's retry
  n,                   \* send_request_with_retry's n
  data,                \* send_request_with_retry's data
  source_addr,         \* send_request_with_retry's source_addr
  sock,                \* the gateway socket: "none", "open" or "closed"
  response,            \* what send_request_with_retry returned to its caller
  outcome,             \* how the call ended: a returned value or an exception
  sent,                \* datagrams handed to sendall so far
  sentdata,            \* the distinct byte strings handed to sendall so far
  discovered,          \* runs of get_gateway_addr so far
  timeouts,            \* the timeout of each select so far, in milliseconds
  wire,                \* the datagram, as it was on the wire, that data holds
  events               \* the kinds of result read_response has had so far

vars ==
  << pc, args, gateway_ip, request, response_data_class, retry, n, data,
     source_addr, sock, response, outcome, sent, sentdata, discovered,
     timeouts, wire, events >>

NoOutcome == [kind |-> "none", exc |-> "", args |-> << >>, value |-> << >>]
Raise(exc, excargs) ==
  [kind |-> "raise", exc |-> exc, args |-> excargs, value |-> << >>]
Return(value) == [kind |-> "return", exc |-> "", args |-> << >>, value |-> value]

\* raise NATPMPNetworkError(code, error_str(code)) and its like.
NATPMPError(exc, code) == Raise(exc, << code, error_str(code) >>)

InitOf(started) ==
  /\ pc = [c \in Calls |-> IF c \in started THEN "idle" ELSE "off"]
  /\ args = [c \in Calls |-> [op |-> "none"]]
  /\ gateway_ip = [c \in Calls |-> Unbound]
  /\ request = [c \in Calls |-> PublicAddressRequest]
  /\ response_data_class = [c \in Calls |-> None]
  /\ retry = [c \in Calls |-> 0]
  /\ n = [c \in Calls |-> 0]
  /\ data = [c \in Calls |-> EmptyData]
  /\ source_addr = [c \in Calls |-> NoSource]
  /\ sock = [c \in Calls |-> "none"]
  /\ response = [c \in Calls |-> EmptyData]
  /\ outcome = [c \in Calls |-> NoOutcome]
  /\ sent = [c \in Calls |-> 0]
  /\ sentdata = [c \in Calls |-> {}]
  /\ discovered = [c \in Calls |-> 0]
  /\ timeouts = [c \in Calls |-> << >>]
  /\ wire = [c \in Calls |-> << >>]
  /\ events = [c \in Calls |-> {}]

Init == InitOf({1})

\* ------------------------------------------------- conditions of the code

\* Faulty variant: the protocol check rejects only the values above TCP.
InvalidProtocol_AboveOnly(protocol) == protocol > NATPMP_PROTOCOL_TCP

\* map_port: protocol not in [NATPMP_PROTOCOL_UDP, NATPMP_PROTOCOL_TCP].
InvalidProtocol(protocol) ==
  protocol \notin {NATPMP_PROTOCOL_UDP, NATPMP_PROTOCOL_TCP}

\* Faulty variant: the gateway check compares with None only.
NoValidGateway_NoneOnly(gateway) == gateway = None

\* get_gateway_socket: not gateway (None and the empty string are both false).
NoValidGateway(gateway) == gateway = None \/ gateway = ""

\* Faulty variant: the loop test is n < retry.
LoopCond_OffByOne(c) == n[c] < retry[c] /\ data[c] = EmptyData

\* Faulty variant: the loop test forgets the retry budget.
LoopCond_Unbounded(c) == data[c] = EmptyData

\* send_request_with_retry: the loop test, n <= retry and not data.
LoopCond(c) == n[c] <= retry[c] /\ data[c] = EmptyData

\* Faulty variant: every attempt waits one increment.
Timeout_Constant(c) == retry_increment

\* send_request_with_retry: the timeout of the attempt, n * retry_increment.
Timeout(c) == n[c] * retry_increment

\* Faulty variant: only the host of the source is compared.
SourceMismatch_HostOnly(addr, gateway) == addr[1] # gateway

\* send_request_with_retry: the source mismatch that discards the data,
\* source_addr[0] != gateway_ip or source_addr[1] != NATPMP_PORT.
SourceMismatch(addr, gateway) == addr[1] # gateway \/ addr[2] # NATPMP_PORT

\* Faulty variant: the exhaustion test is n >= retry alone.
Exhausted_IgnoresData(c) == n[c] >= retry[c]

\* Faulty variant: the exhaustion test is n == retry and not data.
Exhausted_Equal(c) == n[c] = retry[c] /\ data[c] = EmptyData

\* send_request_with_retry: the exhaustion test, n >= retry and not data.
Exhausted(c) == n[c] >= retry[c] /\ data[c] = EmptyData

\* Faulty variant: the result code is never looked at.
AddressFailed_Never(addr_response) == FALSE

\* get_public_address: addr_response.result != 0.
AddressFailed(addr_response) == addr_response.result # 0

\* Faulty variant: use_exception is ignored.
MappingFailed_IgnoreFlag(port_mapping_response, use_exception) ==
  port_mapping_response.result # 0

\* map_port: port_mapping_response.result != 0 and use_exception.
MappingFailed(port_mapping_response, use_exception) ==
  port_mapping_response.result # 0 /\ use_exception

\* The socket when send_request_with_retry returns: the code never closes it;
\* its only reference is dropped with the frame, and the runtime closes it
\* then (reference counting) or at some later collection.
SocketAfterReturn == {"open", "closed"}

\* ---------------------------------------------------------------- actions

\* The call ends with an exception before send_request_with_retry is entered.
EndEarly(c, result) ==
  /\ pc' = [pc EXCEPT ![c] = "done"]
  /\ outcome' = [outcome EXCEPT ![c] = result]
  /\ UNCHANGED << gateway_ip, request, response_data_class, retry, n, data,
                  source_addr, sock, response, sent, sentdata, timeouts, wire,
                  events >>

\* The call reaches send_request_with_retry(gateway, req, cls, budget).
Enter(c, gateway, req, cls, budget) ==
  /\ pc' = [pc EXCEPT ![c] = "get_gateway_socket"]
  /\ gateway_ip' = [gateway_ip EXCEPT ![c] = gateway]
  /\ request' = [request EXCEPT ![c] = req]
  /\ response_data_class' = [response_data_class EXCEPT ![c] = cls]
  /\ retry' = [retry EXCEPT ![c] = budget]
  /\ UNCHANGED << n, data, source_addr, sock, response, outcome, sent,
                  sentdata, timeouts, wire, events >>

\* if gateway_ip == None: gateway_ip = get_gateway_addr(), when get_gateway_addr
\* raises NATPMPNetworkError(NATPMP_GATEWAY_CANNOT_FIND, ...).
DiscoveryFails(c, gateway, found) ==
  /\ discovered' = [discovered EXCEPT ![c] = IF gateway = None THEN @ + 1 ELSE @]
  /\ gateway = None /\ found = CannotFind
  /\ EndEarly(c, NATPMPError("NATPMPNetworkError", NATPMP_GATEWAY_CANNOT_FIND))

\* get_public_address(gateway_ip, retry), up to its call of
\* send_request_with_retry.
get_public_address(c, gateway, budget, found) ==
  /\ args' = [args EXCEPT ![c] =
       [op |-> "get_public_address", gateway_ip |-> gateway, retry |-> budget]]
  /\ \/ DiscoveryFails(c, gateway, found)
     \/ /\ ~ (gateway = None /\ found = CannotFind)
        /\ discovered' =
             [discovered EXCEPT ![c] = IF gateway = None THEN @ + 1 ELSE @]
        /\ Enter(c, IF gateway = None THEN found ELSE gateway,
                 PublicAddressRequest, "PublicAddressResponse", budget)

\* map_port(protocol, public_port, private_port, lifetime, gateway_ip, retry,
\* use_exception), up to its call of send_request_with_retry.
map_port(c, protocol, public_port, private_port, lifetime, gateway, budget, use_exception, found) ==
  /\ args' = [args EXCEPT ![c] =
       [op |-> "map_port", protocol |-> protocol, public_port |-> public_port,
        private_port |-> private_port, lifetime |-> lifetime,
        gateway_ip |-> gateway, retry |-> budget,
        use_exception |-> use_exception]]
  /\ \/ /\ InvalidProtocol(protocol)
        /\ UNCHANGED discovered
        /\ EndEarly(c, Raise("ValueError",
             << "Must be either NATPMP_PROTOCOL_UDP or NATPMP_PROTOCOL_TCP" >>))
     \/ /\ ~ InvalidProtocol(protocol)
        /\ DiscoveryFails(c, gateway, found)
     \/ /\ ~ InvalidProtocol(protocol)
        /\ ~ (gateway = None /\ found = CannotFind)
        /\ discovered' =
             [discovered EXCEPT ![c] = IF gateway = None THEN @ + 1 ELSE @]
        /\ Enter(c, IF gateway = None THEN found ELSE gateway,
                 PortMapRequest(protocol, private_port, public_port, lifetime),
                 "PortMapResponse", budget)

CallGetPublicAddress(c) ==
  /\ pc[c] = "idle"
  /\ \E gateway \in GatewayArgs, budget \in RetryArgs,
        found \in GatewayAddrOutcomes :
       get_public_address(c, gateway, budget, found)

CallMapPort(c) ==
  /\ pc[c] = "idle"
  /\ \E protocol \in ProtocolArgs, public_port \in PortArgs, private_port \in PortArgs,
        lifetime \in LifetimeArgs, gateway \in GatewayArgs,
        budget \in RetryArgs, use_exception \in BOOLEAN,
        found \in GatewayAddrOutcomes :
       map_port(c, protocol, public_port, private_port, lifetime, gateway,
                budget, use_exception, found)

\* map_tcp_port and map_udp_port: map_port with the protocol fixed.
CallMapTcpPort(c) ==
  /\ pc[c] = "idle"
  /\ \E public_port \in PortArgs, private_port \in PortArgs,
        lifetime \in LifetimeArgs, gateway \in GatewayArgs,
        budget \in RetryArgs, use_exception \in BOOLEAN,
        found \in GatewayAddrOutcomes :
       map_port(c, NATPMP_PROTOCOL_TCP, public_port, private_port, lifetime, gateway,
                budget, use_exception, found)

CallMapUdpPort(c) ==
  /\ pc[c] = "idle"
  /\ \E public_port \in PortArgs, private_port \in PortArgs,
        lifetime \in LifetimeArgs, gateway \in GatewayArgs,
        budget \in RetryArgs, use_exception \in BOOLEAN,
        found \in GatewayAddrOutcomes :
       map_port(c, NATPMP_PROTOCOL_UDP, public_port, private_port, lifetime, gateway,
                budget, use_exception, found)

\* send_request_with_retry called by the application itself, with a public
\* address request and no response_data_class: it returns the raw data.
CallSendRequestWithRetry(c) ==
  /\ pc[c] = "idle"
  /\ \E gateway \in GatewayArgs, budget \in RetryArgs :
    /\ args' = [args EXCEPT ![c] =
         [op |-> "send_request_with_retry", gateway_ip |-> gateway,
          retry |-> budget]]
    /\ UNCHANGED discovered
    /\ Enter(c, gateway, PublicAddressRequest, None, budget)

\* error_str(result_code), called on its own.
CallErrorStr(c) ==
  /\ pc[c] = "idle"
  /\ \E code \in CodeArgs :
       /\ args' = [args EXCEPT ![c] = [op |-> "error_str", result_code |-> code]]
       /\ UNCHANGED discovered
       /\ EndEarly(c, Return(error_str(code)))

\* request.toBytes(), called on its own on a request object.
CallToBytes(c) ==
  /\ pc[c] = "idle"
  /\ \E req \in {PublicAddressRequest} \cup
                 {PortMapRequest(protocol, private_port, public_port, lifetime) :
                    protocol \in {NATPMP_PROTOCOL_UDP, NATPMP_PROTOCOL_TCP},
                    private_port \in CodecPorts, public_port \in CodecPorts,
                    lifetime \in CodecLifetimes} :
       /\ args' = [args EXCEPT ![c] = [op |-> "toBytes", request |-> req]]
       /\ UNCHANGED discovered
       /\ EndEarly(c, IF toBytesRaises(req) THEN Raise("struct.error", << >>)
                                            ELSE Return(toBytes(req)))

\* The call ends inside send_request_with_retry with an exception: the frame,
\* and the socket it holds, stay referenced by the traceback.
RaiseInside(c, result) ==
  /\ pc' = [pc EXCEPT ![c] = "done"]
  /\ outcome' = [outcome EXCEPT ![c] = result]

\* A call of the socket module fails: the operating system's error leaves
\* send_request_with_retry as the socket.error it is (nothing catches it).
OSFailure(c) ==
  /\ RaiseInside(c, Raise("socket.error", << >>))
  /\ events' = [events EXCEPT ![c] = @ \cup {"oserror"}]

\* get_gateway_socket(gateway_ip), then n = 1 and data = "".
GetGatewaySocket(c) ==
  /\ pc[c] = "get_gateway_socket"
  /\ UNCHANGED << args, gateway_ip, request, response_data_class, retry,
                  source_addr, response, sent, sentdata, discovered, timeouts,
                  wire >>
  /\ \/ /\ NoValidGateway(gateway_ip[c])
        /\ RaiseInside(c, NATPMPError("NATPMPNetworkError",
                                      NATPMP_GATEWAY_NO_VALID_GATEWAY))
        /\ UNCHANGED << sock, n, data, events >>
     \/ /\ ~ NoValidGateway(gateway_ip[c])
        /\ \/ \* socket.socket() fails: there is no socket
              /\ OSFailure(c)
              /\ UNCHANGED << sock, n, data >>
           \/ \* connect() fails: the socket exists
              /\ OSFailure(c)
              /\ sock' = [sock EXCEPT ![c] = "open"]
              /\ UNCHANGED << n, data >>
           \/ /\ sock' = [sock EXCEPT ![c] = "open"]
              /\ n' = [n EXCEPT ![c] = 1]
              /\ data' = [data EXCEPT ![c] = EmptyData]
              /\ pc' = [pc EXCEPT ![c] = "loop"]
              /\ UNCHANGED << outcome, events >>

\* The loop test holds: send_request(gateway_socket, request).
SendRequest(c) ==
  /\ pc[c] = "loop"
  /\ LoopCond(c)
  /\ UNCHANGED << args, gateway_ip, request, response_data_class, retry, n,
                  data, source_addr, sock, response, discovered, timeouts,
                  wire >>
  /\ \/ /\ toBytesRaises(request[c])
        /\ RaiseInside(c, Raise("struct.error", << >>))
        /\ UNCHANGED << sent, sentdata, events >>
     \/ /\ ~ toBytesRaises(request[c])
        /\ \/ \* sendall() fails
              /\ OSFailure(c)
              /\ UNCHANGED << sent, sentdata >>
           \/ /\ sent' = [sent EXCEPT ![c] = @ + 1]
              /\ sentdata' = [sentdata EXCEPT ![c] = @ \cup {toBytes(request[c])}]
              /\ pc' = [pc EXCEPT ![c] = "read_response"]
              /\ UNCHANGED << outcome, events >>

\* Faulty variant: a discarded datagram does not count as an attempt (the loop
\* goes on before n += 1).
Advance_SkipOnDiscard(c, addr) ==
  IF addr # NoSource /\ SourceMismatch(addr, gateway_ip[c])
    THEN n ELSE [n EXCEPT ![c] = @ + 1]

\* Faulty variant: n is a counter of the module, shared by every call.
Advance_Shared(c, addr) == [d \in Calls |-> n[d] + 1]

\* n += 1 at the end of the loop body, whatever source addr the attempt read:
\* n is a local of the call.
Advance(c, addr) == [n EXCEPT ![c] = @ + 1]

\* The rest of the loop body once read_response has given (received, addr):
\* the source check, and n += 1.
EndAttempt(c, received, addr, datagram, kind) ==
  LET kept == IF SourceMismatch(addr, gateway_ip[c]) THEN EmptyData ELSE received
  IN /\ data' = [data EXCEPT ![c] = kept]
     /\ source_addr' = [source_addr EXCEPT ![c] = addr]
     /\ n' = Advance(c, addr)
     /\ wire' = [wire EXCEPT ![c] = IF kept = EmptyData THEN << >> ELSE datagram]
     /\ events' = [events EXCEPT ![c] = @ \cup
          {IF kind = "timeout" THEN "timeout"
           ELSE IF SourceMismatch(addr, gateway_ip[c]) THEN "discard"
           ELSE IF received = EmptyData THEN "empty" ELSE "accept"}]
     /\ pc' = [pc EXCEPT ![c] = "loop"]
     /\ UNCHANGED outcome

\* read_response(gateway_socket, n * retry_increment) and the rest of the loop
\* body.
ReadResponse(c) ==
  /\ pc[c] = "read_response"
  /\ timeouts' = [timeouts EXCEPT ![c] = Append(@, Timeout(c))]
  /\ UNCHANGED << args, gateway_ip, request, response_data_class, retry, sock,
                  response, sent, sentdata, discovered >>
  /\ \/ \* select() times out: data = "" and source_addr = ("", "")
        EndAttempt(c, EmptyData, NoSource, << >>, "timeout")
     \/ \* a datagram is there: recvfrom(responseSize)
        \E datagram \in WireDatagrams, addr \in Sources :
          EndAttempt(c, recvfrom(datagram, responseSize), addr, datagram,
                     "datagram")
     \/ \* recvfrom() fails
        /\ OSFailure(c)
        /\ UNCHANGED << n, data, source_addr, wire >>

\* The loop has ended: the exhaustion test, the decoding, the return.
Finish(c) ==
  /\ pc[c] = "loop"
  /\ ~ LoopCond(c)
  /\ UNCHANGED << args, gateway_ip, request, response_data_class, retry, n,
                  data, source_addr, sent, sentdata, discovered, timeouts, wire,
                  events >>
  /\ \/ /\ Exhausted(c)
        /\ RaiseInside(c, NATPMPError("NATPMPUnsupportedError",
                                      NATPMP_GATEWAY_NO_SUPPORT))
        /\ UNCHANGED << sock, response >>
     \/ /\ ~ Exhausted(c)
        /\ data[c] # EmptyData /\ response_data_class[c] # None
        /\ UnpackRaises(response_data_class[c], data[c])
        /\ RaiseInside(c, Raise("struct.error", << >>))
        /\ UNCHANGED << sock, response >>
     \/ /\ ~ Exhausted(c)
        /\ data[c] # EmptyData /\ response_data_class[c] # None
        /\ ~ UnpackRaises(response_data_class[c], data[c])
        /\ response' = [response EXCEPT ![c] =
                          Decode(response_data_class[c], data[c])]
        /\ \E s \in SocketAfterReturn : sock' = [sock EXCEPT ![c] = s]
        /\ pc' = [pc EXCEPT ![c] = "returned"]
        /\ UNCHANGED outcome
     \/ /\ ~ Exhausted(c)
        /\ ~ (data[c] # EmptyData /\ response_data_class[c] # None)
        /\ response' = [response EXCEPT ![c] = data[c]]
        /\ \E s \in SocketAfterReturn : sock' = [sock EXCEPT ![c] = s]
        /\ pc' = [pc EXCEPT ![c] = "returned"]
        /\ UNCHANGED outcome

\* get_public_address, after send_request_with_retry has returned.
GetPublicAddressResult(c) ==
  /\ pc[c] = "returned"
  /\ args[c].op = "get_public_address"
  /\ pc' = [pc EXCEPT ![c] = "done"]
  /\ outcome' = [outcome EXCEPT ![c] =
       IF AddressFailed(response[c])
         THEN Raise("NATPMPResultError",
                    << response[c].result, error_str(response[c].result),
                       response[c] >>)
         ELSE Return(response[c].ip)]
  /\ UNCHANGED << args, gateway_ip, request, response_data_class, retry, n,
                  data, source_addr, sock, response, sent, sentdata, discovered,
                  timeouts, wire, events >>

\* map_port, after send_request_with_retry has returned.
MapPortResult(c) ==
  /\ pc[c] = "returned"
  /\ args[c].op = "map_port"
  /\ pc' = [pc EXCEPT ![c] = "done"]
  /\ outcome' = [outcome EXCEPT ![c] =
       IF MappingFailed(response[c], args[c].use_exception)
         THEN Raise("NATPMPResultError",
                    << response[c].result, error_str(response[c].result),
                       response[c] >>)
         ELSE Return(response[c])]
  /\ UNCHANGED << args, gateway_ip, request, response_data_class, retry, n,
                  data, source_addr, sock, response, sent, sentdata, discovered,
                  timeouts, wire, events >>

\* The application's own call of send_request_with_retry has returned.
SendRequestWithRetryResult(c) ==
  /\ pc[c] = "returned"
  /\ args[c].op = "send_request_with_retry"
  /\ pc' = [pc EXCEPT ![c] = "done"]
  /\ outcome' = [outcome EXCEPT ![c] = Return(response[c])]
  /\ UNCHANGED << args, gateway_ip, request, response_data_class, retry, n,
                  data, source_addr, sock, response, sent, sentdata, discovered,
                  timeouts, wire, events >>

Next ==
  \E c \in Calls :
    \/ CallGetPublicAddress(c)
    \/ CallMapPort(c)
    \/ CallMapTcpPort(c)
    \/ CallMapUdpPort(c)
    \/ CallSendRequestWithRetry(c)
    \/ CallErrorStr(c)
    \/ CallToBytes(c)
    \/ GetGatewaySocket(c)
    \/ SendRequest(c)
    \/ ReadResponse(c)
    \/ Finish(c)
    \/ GetPublicAddressResult(c)
    \/ MapPortResult(c)
    \/ SendRequestWithRetryResult(c)

Spec == Init /\ [][Next]_vars

\* The program is single-threaded and every step it takes returns: select()
\* returns at its timeout at the latest, recvfrom() is called only once select()
\* has reported a datagram, sendall() on a UDP socket does not wait for the
\* peer.  So a call that is inside an operation takes its next step; nothing
\* makes the application start a call.
Step(c) ==
  \/ GetGatewaySocket(c)
  \/ SendRequest(c)
  \/ ReadResponse(c)
  \/ Finish(c)
  \/ GetPublicAddressResult(c)
  \/ MapPortResult(c)
  \/ SendRequestWithRetryResult(c)

FairSpec == Init /\ [][Next]_vars /\ WF_vars(\E c \in Calls : Step(c))

\* Two applications' calls of send_request_with_retry running interleaved (two
\* threads or two processes): the first towards GatewayHost, the second towards
\* the same gateway or another one.
ParGateways(c) == IF c = 1 THEN {GatewayHost} ELSE {GatewayHost, OtherHost}
ParRetryArgs == {1, MaxRetry}

InitPar == InitOf(Calls)

CallInParallel(c) ==
  /\ pc[c] = "idle"
  /\ \E gateway \in ParGateways(c), budget \in ParRetryArgs :
    /\ args' = [args EXCEPT ![c] =
         [op |-> "send_request_with_retry", gateway_ip |-> gateway,
          retry |-> budget]]
    /\ UNCHANGED discovered
    /\ Enter(c, gateway, PublicAddressRequest, None, budget)

NextPar ==
  \E c \in Calls :
    \/ CallInParallel(c)
    \/ GetGatewaySocket(c)
    \/ SendRequest(c)
    \/ ReadResponse(c)
    \/ Finish(c)
    \/ SendRequestWithRetryResult(c)

SpecPar == InitPar /\ [][NextPar]_vars

\* ----------------------------------------------------------------- claims

Unsupported == NATPMPError("NATPMPUnsupportedError", NATPMP_GATEWAY_NO_SUPPORT)

\* Exceptions that are not an outcome of the retry loop itself: a rejected
\* argument, a failure of the operating system, a field that cannot be packed
\* or a datagram that cannot be unpacked.
OtherErrors == {"ValueError", "NATPMPNetworkError", "socket.error", "struct.error"}

\* C1. Retry exhaustion: with a retry budget of at least 1 and no accepted
\* reply, send_request_with_retry never sends more datagrams than the budget,
\* never returns, and when it ends in the loop's own outcome that outcome is
\* NATPMPUnsupportedError(NATPMP_GATEWAY_NO_SUPPORT) after exactly `retry` sends.
C1_RetryExhaustion ==
  \A c \in Calls :
    (retry[c] >= 1 /\ "accept" \notin events[c]) =>
      /\ sent[c] <= retry[c]
      /\ pc[c] # "returned"
      /\ (pc[c] = "done" /\ outcome[c].exc \notin OtherErrors) =>
           (outcome[c] = Unsupported /\ sent[c] = retry[c])

\* C1 witness: the default budget, nine timeouts, nine sends, the error.
C1_Witness ==
  \E c \in Calls :
    /\ retry[c] = DefaultRetry /\ events[c] = {"timeout"}
    /\ sent[c] = 9 /\ pc[c] = "done" /\ outcome[c] = Unsupported

\* C2. Source filtering: whenever the source reported for the last datagram of
\* a transaction is not (gateway_ip, 5351), it holds no data (as after a timeout),
\* has not returned to its caller, and the call has produced neither a value nor
\* a result error.
C2_SourceFiltering ==
  \A c \in Calls :
    (gateway_ip[c] # Unbound /\ source_addr[c] # << gateway_ip[c], NATPMP_PORT >>) =>
      /\ data[c] = EmptyData
      /\ pc[c] # "returned"
      /\ outcome[c].kind # "return"
      /\ outcome[c].exc # "NATPMPResultError"

\* C2 witness: a non-empty datagram from the gateway's host but another port
\* was the last thing read, and the loop is about to go on.
C2_Witness ==
  \E c \in Calls :
    /\ pc[c] = "loop" /\ source_addr[c] = << GatewayHost, 5350 >>
    /\ gateway_ip[c] = GatewayHost /\ events[c] = {"discard"}
    /\ n[c] <= retry[c] /\ ENABLED SendRequest(c)

\* C9. Timeout monotonicity: the k-th select of a transaction waits k * 250 ms,
\* more than the one before it, and every send has been followed by one select
\* (the last one is pending while the call is in read_response).
C9_TimeoutMonotonicity ==
  \A c \in Calls :
    /\ \A k \in 1 .. Len(timeouts[c]) :
         /\ timeouts[c][k] = k * 250
         /\ k >= 2 => timeouts[c][k] > timeouts[c][k - 1]
    /\ Len(timeouts[c]) = IF pc[c] = "read_response" THEN sent[c] - 1 ELSE sent[c]

\* C9 witness: nine waits, after timeouts and discarded datagrams.
C9_Witness ==
  \E c \in Calls :
    /\ Len(timeouts[c]) = 9 /\ timeouts[c][9] = 2250
    /\ events[c] = {"timeout", "discard"}

\* C3 (as claimed). Socket release: no call has ended with its gateway socket
\* still open.
C3_SocketReleased ==
  \A c \in Calls : pc[c] = "done" => sock[c] # "open"

\* C4 (as claimed). Decode failure is silence: a call that ended holding a
\* datagram from the gateway whose length is not the one its response class
\* needs (12 for an address request, 16 for a mapping request) ended in
\* NATPMPUnsupportedError after all `retry` sends, not in a decode error.
C4_DecodeFailureIsSilence ==
  \A c \in Calls :
    ( /\ pc[c] = "done" /\ data[c] # EmptyData
      /\ \/ response_data_class[c] = "PublicAddressResponse" /\ Len(data[c]) # 12
         \/ response_data_class[c] = "PortMapResponse" /\ Len(data[c]) # 16 )
    => (outcome[c] = Unsupported /\ sent[c] = retry[c])

\* C5 (as claimed). Length guard: a decoded response handed back by the
\* transaction was built from a datagram that had, on the wire, exactly the
\* size of its class (12 or 16 bytes).
C5_LengthGuard ==
  \A c \in Calls :
    ( /\ response_data_class[c] # None
      /\ \/ pc[c] = "returned"
         \/ outcome[c].kind = "return"
         \/ outcome[c].exc = "NATPMPResultError" )
    => Len(wire[c]) = IF response_data_class[c] = "PublicAddressResponse"
                        THEN 12 ELSE 16

\* C6. Protocol validation before I/O: once map_port is called with a protocol
\* that is neither 1 nor 2, the call has ended in ValueError, gateway discovery
\* has not run, no socket exists and nothing was sent, whatever the other
\* arguments are.
C6_ProtocolValidation ==
  \A c \in Calls :
    (args[c].op = "map_port" /\ args[c].protocol \notin {1, 2}) =>
      /\ pc[c] = "done"
      /\ outcome[c].kind = "raise" /\ outcome[c].exc = "ValueError"
      /\ discovered[c] = 0
      /\ sock[c] = "none"
      /\ sent[c] = 0
      /\ timeouts[c] = << >>

\* C6 witness: protocol 0, no gateway given (discovery would have run), default
\* retry.
C6_Witness ==
  \E c \in Calls :
    /\ args[c].op = "map_port" /\ args[c].protocol = 0
    /\ args[c].gateway_ip = None /\ args[c].retry = DefaultRetry
    /\ outcome[c].exc = "ValueError"

\* The result code of the accepted datagram: its third and fourth bytes.
WireResult(c) == 256 * wire[c][3] + wire[c][4]

\* The call got past the decoding of an accepted datagram.
Decoded(c) ==
  /\ pc[c] = "done" /\ "accept" \in events[c]
  /\ outcome[c].exc # "struct.error"

\* C7. map_port result handling: with result code r in the accepted reply,
\* map_port raises NATPMPResultError(r, error_str(r), response) when r # 0 and
\* use_exception, and returns the decoded response (result = r) otherwise.
C7_MapPortResult ==
  \A c \in Calls :
    (args[c].op = "map_port" /\ Decoded(c)) =>
      /\ response[c].cls = "PortMapResponse"
      /\ response[c].result = WireResult(c)
      /\ IF WireResult(c) # 0 /\ args[c].use_exception
           THEN outcome[c] = Raise("NATPMPResultError",
                  << WireResult(c), error_str(WireResult(c)), response[c] >>)
           ELSE outcome[c] = Return(response[c])

\* C7 witness: result 2 with use_exception False is returned, not raised.
C7_Witness ==
  \E c \in Calls :
    /\ args[c].op = "map_port" /\ Decoded(c)
    /\ ~ args[c].use_exception /\ response[c].result = 2
    /\ outcome[c].kind = "return" /\ outcome[c].value.public_port = 62002

\* C8. get_public_address returns the address field of the accepted response
\* (bytes 9..12 of the datagram as a dotted quad) exactly when its result code
\* is 0, and raises
\* NATPMPResultError(r, error_str(r), response) for every other code r.
C8_PublicAddressResult ==
  \A c \in Calls :
    (args[c].op = "get_public_address" /\ Decoded(c)) =>
      /\ response[c].cls = "PublicAddressResponse"
      /\ response[c].result = WireResult(c)
      /\ IF WireResult(c) = 0
           THEN /\ outcome[c] = Return(response[c].ip)
                /\ SubSeq(wire[c], 9, 12) = << 100, 64, 113, 5 >> =>
                     outcome[c].value = "100.64.113.5"
           ELSE outcome[c] = Raise("NATPMPResultError",
                  << WireResult(c), error_str(WireResult(c)), response[c] >>)

\* C8 witness: result 258 (not a known code) raises with the generic text.
C8_Witness ==
  \E c \in Calls :
    /\ args[c].op = "get_public_address" /\ Decoded(c)
    /\ outcome[c].exc = "NATPMPResultError"
    /\ outcome[c].args[1] = 258 /\ outcome[c].args[2] = "Unknown fatal error."

\* C10. Empty gateway: a transaction entered with an empty (or None) gateway
\* address has ended in NATPMPNetworkError(NATPMP_GATEWAY_NO_VALID_GATEWAY)
\* with no socket and nothing sent as soon as get_gateway_socket has run; a
\* high-level operation given gateway_ip None runs discovery (once, and only
\* then), and when discovery fails the call has ended in
\* NATPMPNetworkError(NATPMP_GATEWAY_CANNOT_FIND) without entering the
\* transaction: no socket, nothing sent.
C10_EmptyGateway ==
  \A c \in Calls :
    /\ (gateway_ip[c] \in {"", None} /\ pc[c] # "get_gateway_socket") =>
         /\ pc[c] = "done"
         /\ outcome[c] = NATPMPError("NATPMPNetworkError",
                                     NATPMP_GATEWAY_NO_VALID_GATEWAY)
         /\ sock[c] = "none" /\ sent[c] = 0 /\ timeouts[c] = << >>
    /\ (args[c].op \in {"get_public_address", "map_port"}
          /\ outcome[c].exc # "ValueError") =>
         discovered[c] = IF args[c].gateway_ip = None THEN 1 ELSE 0
    /\ outcome[c] = NATPMPError("NATPMPNetworkError", NATPMP_GATEWAY_CANNOT_FIND) =>
         /\ pc[c] = "done" /\ gateway_ip[c] = Unbound
         /\ sock[c] = "none" /\ sent[c] = 0 /\ timeouts[c] = << >>

\* C10 witness: map_port with gateway_ip "" has ended with the error, nothing
\* sent.
C10_Witness ==
  \E c \in Calls :
    /\ args[c].op = "map_port" /\ args[c].gateway_ip = ""
    /\ outcome[c].exc = "NATPMPNetworkError" /\ outcome[c].args[1] = -10
    /\ sent[c] = 0

\* C11 (as claimed). OS-level failures are typed: a call during which the
\* operating system failed a socket, connect, sendall or recvfrom ends in the
\* library's NATPMPNetworkError.
C11_OSFailuresTyped ==
  \A c \in Calls :
    "oserror" \in events[c] =>
      (pc[c] = "done" /\ outcome[c].exc = "NATPMPNetworkError")

\* A port or lifetime argument that does not fit its field.
BadPortOrLifetime(a) ==
  \/ a.public_port \notin 0 .. 65535
  \/ a.private_port \notin 0 .. 65535
  \/ a.lifetime < 0

\* C12 (as claimed). Port and lifetime validation before I/O: once map_port is
\* called with a valid protocol and a port outside 0..65535 or a lifetime
\* outside 0..2^32-1, the call has ended in a validation error, gateway
\* discovery has not run, no socket exists and nothing was sent.
C12_PortLifetimeValidation ==
  \A c \in Calls :
    ( /\ args[c].op = "map_port" /\ args[c].protocol \in {1, 2}
      /\ BadPortOrLifetime(args[c]) ) =>
      /\ pc[c] = "done"
      /\ outcome[c].exc \in {"ValueError", "struct.error"}
      /\ discovered[c] = 0
      /\ sock[c] = "none"
      /\ sent[c] = 0

\* The codes NATPMP_ERROR_DICT has an entry for: the wire codes 0..5 and the
\* three local ones.
KnownCodes == (0 .. 5) \cup {-10, -11, -12}

\* C13. Result description mapping: error_str(code) gives, for each of the
\* codes 0..5, -10, -11, -12, a description that no other code has and that is
\* not the generic one, and "Unknown fatal error." for every other code; and
\* every NATPMP error a call raises carries the code of its kind (-11 with
\* NATPMPUnsupportedError, -10 for a missing gateway, -12 for a failed
\* discovery, the reply's result with NATPMPResultError) together with the
\* description of that very code.
C13_ResultDescription ==
  \A c \in Calls :
    /\ (args[c].op = "error_str" /\ pc[c] = "done") =>
         LET code == args[c].result_code
             text == outcome[c].value
         IN /\ outcome[c].kind = "return"
            /\ code \in KnownCodes <=> text # "Unknown fatal error."
            /\ \A other \in KnownCodes \ {code} : error_str(other) # text
            /\ code = 0 => text = "No error."
            /\ code = -10 => text = "No valid gateway address was specified."
            /\ code = -11 => text = "The gateway does not support NAT-PMP"
            /\ code = -12 => text =
                 "Cannot automatically determine gateway address.  Must specify manually."
    /\ outcome[c].exc = "NATPMPUnsupportedError" =>
         outcome[c].args = << -11, "The gateway does not support NAT-PMP" >>
    /\ outcome[c].exc = "NATPMPNetworkError" =>
         IF gateway_ip[c] = Unbound
           THEN outcome[c].args = << -12,
                  "Cannot automatically determine gateway address.  Must specify manually." >>
           ELSE outcome[c].args =
                  << -10, "No valid gateway address was specified." >>
    /\ outcome[c].exc = "NATPMPResultError" =>
         /\ outcome[c].args[1] = WireResult(c)
         /\ outcome[c].args[1] = 2 => outcome[c].args[2] =
              "The operation was refused.  NAT-PMP may be turned off on gateway."
         /\ outcome[c].args[1] = 258 => outcome[c].args[2] = "Unknown fatal error."

\* C13 witness: error_str(0) has returned "No error.".
C13_Witness ==
  \E c \in Calls :
    /\ args[c].op = "error_str" /\ args[c].result_code = 0
    /\ pc[c] = "done" /\ outcome[c].value = "No error."

\* The mapping requests whose fields fit their formats, among those the codec
\* is called with.
ValidMapRequests ==
  {PortMapRequest(protocol, private_port, public_port, lifetime) :
     protocol \in {1, 2}, private_port \in CodecPorts \cap (0 .. 65535),
     public_port \in CodecPorts \cap (0 .. 65535),
     lifetime \in {l \in CodecLifetimes : l >= 0}}

\* C14. Encode/decode round-trip: the bytes PortMapRequest.toBytes gives for a
\* valid (protocol, private port, public port, lifetime) are 12 bytes that,
\* read big-endian at the documented offsets (0, 1, 2..3, 4..5, 6..7, 8..11),
\* give back version, opcode, reserved 0, private port, public port and
\* lifetime; and no other valid request has the same bytes.
C14_RoundTrip ==
  \A c \in Calls :
    (args[c].op = "toBytes" /\ pc[c] = "done"
       /\ args[c].request \in ValidMapRequests) =>
      LET r == args[c].request
          b == outcome[c].value
      IN /\ outcome[c].kind = "return"
         /\ Len(b) = 12
         /\ b[1] = r.version
         /\ b[2] = r.opcode
         /\ 256 * b[3] + b[4] = 0
         /\ 256 * b[5] + b[6] = r.private_port
         /\ 256 * b[7] + b[8] = r.public_port
         /\ ((b[9] * 256 + b[10]) * 256 + b[11]) * 256 + b[12] = r.lifetime
         /\ \A other \in ValidMapRequests : toBytes(other) = b => other = r

\* C14 witness: a request with different ports, neither a multiple of 256 nor
\* below 256, and the largest lifetime the model holds.
C14_Witness ==
  \E c \in Calls :
    /\ args[c].op = "toBytes" /\ pc[c] = "done"
    /\ args[c].request = PortMapRequest(2, 62001, 65535, 2147483647)
    /\ outcome[c].value = << 0, 2, 0, 0, 242, 49, 255, 255, 127, 255, 255, 255 >>

C16_OpcodeMatches ==
  \A c \in Calls :
    ( /\ response_data_class[c] # None
      /\ \/ pc[c] = "returned"
         \/ outcome[c].kind = "return"
         \/ outcome[c].exc = "NATPMPResultError" )
    => response[c].opcode = request[c].opcode + 128

\* The number of datagrams a retry budget allows: none for a budget below 1.
Budget(c) == IF retry[c] > 0 THEN retry[c] ELSE 0

\* C17. Bounded attempts and termination: whatever mix of timeouts, discarded
\* datagrams, empty datagrams and accepted replies occurs, the number of
\* datagrams sent never exceeds the retry budget, and a call that has entered
\* send_request_with_retry eventually leaves it, returning or raising.
C17_BoundedAndTerminates ==
  /\ [](\A c \in Calls : sent[c] <= Budget(c))
  /\ \A c \in Calls :
       (pc[c] = "get_gateway_socket") ~> (pc[c] \in {"returned", "done"})

\* C17 witness: a call that met a timeout, a discarded datagram and an empty
\* datagram before the reply it accepted, and has ended.
C17_Witness ==
  \E c \in Calls :
    /\ pc[c] = "done"
    /\ events[c] = {"timeout", "discard", "empty", "accept"}
    /\ sent[c] = retry[c]

\* The 12 bytes of a mapping request as the protocol lays them out, written
\* byte by byte from the arguments of map_port.
MappingLayout(b, a) ==
  /\ Len(b) = 12
  /\ b[1] = 0
  /\ b[2] = a.protocol /\ b[2] \in {1, 2}
  /\ b[3] = 0 /\ b[4] = 0
  /\ 256 * b[5] + b[6] = a.private_port
  /\ 256 * b[7] + b[8] = a.public_port
  /\ 256 * (256 * (256 * b[9] + b[10]) + b[11]) + b[12] = a.lifetime
  /\ \A i \in 1..12 : b[i] \in 0..255

\* C18. Wire layout and argument mapping: every datagram map_port sends is the
\* 12 bytes version 0, opcode = protocol, reserved 0, the caller's private_port,
\* the caller's public_port, lifetime, big-endian; a public address request is
\* the 2 bytes 0, 0; every retransmission of a call carries the same bytes.
C18_WireLayout ==
  \A c \in Calls :
    /\ sent[c] >= 1 => sentdata[c] # {}
    /\ Cardinality(sentdata[c]) <= 1
    /\ \A b \in sentdata[c] :
         IF args[c].op = "map_port" THEN MappingLayout(b, args[c])
                                    ELSE b = << 0, 0 >>

\* C18 witness: a TCP mapping request with different public and private ports
\* that has been retransmitted.
C18_Witness ==
  \E c \in Calls :
    /\ args[c].op = "map_port"
    /\ args[c].protocol = 2
    /\ args[c].public_port = 62002 /\ args[c].private_port = 62001
    /\ sent[c] >= 2
    /\ sentdata[c] # {}

\* C19. A discarded datagram costs one attempt: inside the loop the attempt
\* counter is one more than the number of reads made, whatever they read (so a
\* discard advances it by exactly one, and the read that met the discard was
\* the attempt's only one), each attempt has sent one datagram, and a call that
\* met nothing but discards ends, as silence does, with NATPMPUnsupportedError
\* after exactly `retry` sends.
C19_DiscardCostsOneAttempt ==
  \A c \in Calls :
    /\ pc[c] = "loop" =>
         (n[c] = Len(timeouts[c]) + 1 /\ sent[c] = Len(timeouts[c]))
    /\ pc[c] = "read_response" =>
         (n[c] = Len(timeouts[c]) + 1 /\ sent[c] = n[c])
    /\ (events[c] = {"discard"} /\ retry[c] >= 1) =>
         /\ data[c] = EmptyData
         /\ pc[c] # "returned"
         /\ pc[c] = "done" =>
              /\ outcome[c] = Unsupported
              /\ sent[c] = retry[c]
              /\ Len(timeouts[c]) = retry[c]

\* C19 witness: a call with the default budget of 9 that met a wrong-source
\* datagram in each attempt and nothing else, and has ended.
C19_Witness ==
  \E c \in Calls :
    /\ events[c] = {"discard"}
    /\ retry[c] = DefaultRetry
    /\ sent[c] = DefaultRetry
    /\ Len(timeouts[c]) = DefaultRetry
    /\ pc[c] = "done"
    /\ outcome[c] = Unsupported

\* Everything one call holds: its arguments and locals, its socket, what it has
\* sent and read, its result.
Local(c) ==
  << pc[c], args[c], gateway_ip[c], request[c], response_data_class[c],
     retry[c], n[c], data[c], source_addr[c], sock[c], response[c], outcome[c],
     sent[c], sentdata[c], discovered[c], timeouts[c], wire[c], events[c] >>

\* The step call c is at can be taken, whatever the other call is doing.
CanStep(c) ==
  /\ pc[c] = "get_gateway_socket" => ENABLED GetGatewaySocket(c)
  /\ pc[c] = "loop" => ENABLED (SendRequest(c) \/ Finish(c))
  /\ pc[c] = "read_response" => ENABLED ReadResponse(c)
  /\ pc[c] = "returned" => ENABLED SendRequestWithRetryResult(c)

\* C20. Independence of concurrent transactions: a step of one call (a send, a
\* timeout, a discard, an acceptance, its end) changes nothing the other call
\* holds; each call sends at most its own budget and counts its own attempts;
\* what a call returns is what its own socket read; and neither call ever waits
\* for the other.
C20_Independence ==
  /\ [][\A c \in Calls :
          Local(c)' # Local(c) => \A d \in Calls \ {c} : Local(d)' = Local(d)]_vars
  /\ [](\A c \in Calls :
          /\ sent[c] <= Budget(c)
          /\ pc[c] \in {"loop", "read_response"} => n[c] = Len(timeouts[c]) + 1
          /\ outcome[c].kind = "return" =>
               outcome[c].value = recvfrom(wire[c], responseSize)
          /\ CanStep(c))

\* C20 witness: both calls are inside their retry loops at once, towards the
\* same gateway, at different attempts, and one has had a datagram discarded
\* while the other has timed out.
C20_Witness ==
  /\ pc[1] = "read_response" /\ pc[2] = "loop"
  /\ sock[1] = "open" /\ sock[2] = "open"
  /\ gateway_ip[1] = gateway_ip[2]
  /\ n[1] = 2 /\ n[2] = 3
  /\ events[1] = {"discard"} /\ events[2] = {"timeout"}

\* The call has got its socket and set n = 1: it is at the loop or past it.
ReachedLoop(c) == n[c] >= 1

\* C21. Outcome is total: for every retry budget, 0 and negative ones included,
\* send_request_with_retry never returns the empty "no data" value: it returns
\* only with an accepted datagram; where the loop has ended without data the
\* test n >= retry is true; it raises NATPMPUnsupportedError exactly when the
\* loop ended with no datagram accepted; and with retry <= 0 a call that got its
\* socket sends nothing and raises NATPMPUnsupportedError.
C21_OutcomeTotal ==
  \A c \in Calls :
    /\ (pc[c] = "loop" /\ ~ LoopCond(c) /\ data[c] = EmptyData) =>
         n[c] >= retry[c]
    /\ (pc[c] = "returned" \/ outcome[c].kind = "return") /\ ReachedLoop(c) =>
         /\ data[c] # EmptyData
         /\ response[c] # EmptyData
         /\ "accept" \in events[c]
    /\ (outcome[c].kind = "return" /\ args[c].op = "send_request_with_retry") =>
         outcome[c].value # EmptyData
    /\ outcome[c].exc = "NATPMPUnsupportedError" =>
         /\ outcome[c] = Unsupported
         /\ ReachedLoop(c) /\ n[c] > retry[c]
         /\ data[c] = EmptyData /\ "accept" \notin events[c]
    /\ ( /\ pc[c] = "done" /\ ReachedLoop(c) /\ data[c] = EmptyData
         /\ outcome[c].exc \notin {"struct.error", "socket.error"} ) =>
         outcome[c] = Unsupported
    /\ (retry[c] <= 0 /\ ReachedLoop(c)) =>
         /\ sent[c] = 0 /\ sentdata[c] = {} /\ timeouts[c] = << >>
         /\ n[c] = 1
         /\ pc[c] \in {"loop", "done"}
         /\ pc[c] = "done" => outcome[c] = Unsupported

\* C21 witness: a call with a negative budget got its socket, sent nothing and
\* has ended with NATPMPUnsupportedError.
C21_Witness ==
  \E c \in Calls :
    /\ retry[c] = -1 /\ ReachedLoop(c)
    /\ pc[c] = "done" /\ sent[c] = 0
    /\ outcome[c] = Unsupported

====
